---- MODULE Spec2Model ----
(***************************************************************************)
(* EduSphere API (src/main.py): the FastAPI handlers over the document     *)
(* store.  Strings are sequences of one-character strings, so that the     *)
(* identifier parser can look at every character.  A handler is one        *)
(* action; register is also given in two steps (find_one, insert_one) for  *)
(* the concurrent specification.                                           *)
(***************************************************************************)
EXTENDS Integers, Sequences, FiniteSets, TLC

VARIABLES user, course, product, contactmessage, nextOid, reg, last, issued

vars == <<user, course, product, contactmessage, nextOid, reg, last, issued>>

\* ------------------------------------------------------------------ bounds
MaxUsers == 2
MaxCourses == 1
MaxProducts == 1
MaxContacts == 1
\* documents the store is handed in one run, over all collections
MaxDocs == 3
NumWorkers == 2
FirstOid == 10

\* bytes of an ObjectId in the model (bson uses 12); an identifier is written
\* as 2 * OidBytes hexadecimal characters
OidBytes == 2

\* Python's None (an absent header, an absent document field)
None == <<"None">>

\* ----------------------------------------------------------------- strings
HexChars == <<"0", "1", "2", "3", "4", "5", "6", "7", "8", "9", "a", "b", "c", "d", "e", "f">>

UpperHex == <<"A", "B", "C", "D", "E", "F">>

Lower(c) == IF \E i \in 1..6 : UpperHex[i] = c
            THEN HexChars[10 + (CHOOSE i \in 1..6 : UpperHex[i] = c)]
            ELSE c

Upper(c) == IF \E i \in 11..16 : HexChars[i] = c
            THEN UpperHex[(CHOOSE i \in 11..16 : HexChars[i] = c) - 10]
            ELSE c

IsHexChar(c) == \E i \in 1..16 : HexChars[i] = Lower(c)

HexVal(c) == (CHOOSE i \in 1..16 : HexChars[i] = Lower(c)) - 1

\* ---------------------------------------------------------------- ObjectId
\* a parser that takes lower-case hexadecimal only
ObjectId_valid_lower(s) == /\ Len(s) = 2 * OidBytes
                           /\ \A i \in 1..Len(s) : \E k \in 1..16 : HexChars[k] = s[i]

\* bson.ObjectId(id_str): a str is accepted when it is 2 * OidBytes
\* hexadecimal characters (either case); anything else raises InvalidId
ObjectId_valid(s) == /\ Len(s) = 2 * OidBytes
                     /\ \A i \in 1..Len(s) : IsHexChar(s[i])

ObjectId(s) == [i \in 1..OidBytes |-> 16 * HexVal(s[2 * i - 1]) + HexVal(s[2 * i])]

\* str(ObjectId): the lower-case hexadecimal form of its bytes
str_oid(o) == [i \in 1..(2 * OidBytes) |->
                 IF i % 2 = 1 THEN HexChars[(o[(i + 1) \div 2] \div 16) + 1]
                              ELSE HexChars[(o[i \div 2] % 16) + 1]]

\* the identifier the store generates for the n-th inserted document
new_oid(n) == [i \in 1..OidBytes |->
                 IF i = OidBytes THEN n % 256
                 ELSE IF i = OidBytes - 1 THEN (n \div 256) % 256
                 ELSE 0]

\* ------------------------------------------------------------------ helpers
\* hashlib.sha256(s.encode()).hexdigest(): a collision-free digest, written
\* as the marker "#" followed by the text that was hashed
sha256_hexdigest(s) == <<"#">> \o s

hash_password(password) == sha256_hexdigest(password)

HTTPException(status_code, detail) == [status |-> status_code, detail |-> detail, body |-> None]

Ok(body) == [status |-> 200, detail |-> "", body |-> body]

to_object_id(id_str) ==
    IF ObjectId_valid(id_str)
    THEN [ok |-> TRUE, oid |-> ObjectId(id_str)]
    ELSE [ok |-> FALSE, oid |-> None]

\* serialize(doc): "_id" is replaced by "id" = str(_id); the other fields stay
serialize(doc) == [id |-> str_oid(doc._id), fields |-> doc.fields]

\* --------------------------------------------------------- store operations
\* collection.find_one(filter): the first document among those at the
\* matching positions, <<>> when there is none
find_one(coll, matching) ==
    IF matching = {}
    THEN <<>>
    ELSE <<coll[CHOOSE i \in matching : \A j \in matching : i <= j]>>

find_by_email(coll, email) == find_one(coll, {i \in 1..Len(coll) : coll[i].email = email})

find_by_token(coll, tok) == find_one(coll, {i \in 1..Len(coll) : coll[i].api_token = tok})

find_by_id(coll, oid) == find_one(coll, {i \in 1..Len(coll) : coll[i]._id = oid})

insert_one(coll, doc) == Append(coll, doc)

update_one_token(coll, oid, tok) ==
    [i \in 1..Len(coll) |->
       IF coll[i]._id = oid /\ \A j \in 1..(i - 1) : coll[j]._id # oid
       THEN [coll[i] EXCEPT !.api_token = tok]
       ELSE coll[i]]

\* ------------------------------------------------------------------- inputs
Emails == {<<"a", "@", "x">>, <<"b", "@", "x">>}

Passwords == {<<"p">>, <<"q">>}

Prices == {-1, 0}

Limits == {1}

\* validated request bodies (RegisterRequest, LoginRequest, ContactMessage):
\* two people with their own email and password, and a third registration
\* that takes the first one's email with another name and password
RegisterRequest == {[name |-> <<"A">>, email |-> <<"a", "@", "x">>, password |-> <<"p">>],
                    [name |-> <<"B">>, email |-> <<"b", "@", "x">>, password |-> <<"q">>],
                    [name |-> <<"B">>, email |-> <<"a", "@", "x">>, password |-> <<"q">>]}

LoginRequest == [email : Emails, password : Passwords]

ContactMessage == {[name |-> <<"A">>, email |-> <<"a", "@", "x">>,
                    subject |-> <<"s">>, message |-> <<"m">>]}

\* request bodies of POST /courses and POST /products before validation
CourseBodies == {[title |-> <<"c">>, description |-> <<"d">>, price |-> p] : p \in Prices}

ProductBodies == {[title |-> <<"t">>, description |-> <<"d">>, price |-> p] : p \in Prices}

\* every identifier the store can hand out within the bounds
Oids == {new_oid(n) : n \in FirstOid..(FirstOid + MaxDocs)}

UpperStr(s) == [i \in 1..Len(s) |-> Upper(s[i])]

\* text that is no identifier: wrong alphabet, one character short, one long
NotAnId == <<"n", "o", "t", "-", "a", "n", "-", "i", "d">>

Malformed == {NotAnId,
              SubSeq(str_oid(new_oid(FirstOid)), 1, 2 * OidBytes - 1),
              [str_oid(new_oid(FirstOid)) EXCEPT ![1] = "g"],
              str_oid(new_oid(FirstOid)) \o <<"0">>}

\* every value of the X-Token header considered: absent, empty, unrelated
\* text, an identifier, a password digest, the digest of every identifier
AllTokens == {None, <<>>, <<"g">>, str_oid(new_oid(FirstOid)), hash_password(<<"p">>)}
             \cup {sha256_hexdigest(str_oid(o)) : o \in Oids}

\* every path identifier considered: well-formed in either case, and malformed
AllIds == {str_oid(o) : o \in Oids} \cup {UpperStr(str_oid(o)) : o \in Oids} \cup Malformed

\* the values the requests of a run are drawn from
TokenInputs == {None, <<>>, <<"g">>}
               \cup {sha256_hexdigest(str_oid(new_oid(n))) : n \in FirstOid..(FirstOid + 1)}

IdInputs == {str_oid(new_oid(n)) : n \in FirstOid..(FirstOid + 1)}
            \cup {UpperStr(str_oid(new_oid(FirstOid))), NotAnId,
                  [str_oid(new_oid(FirstOid)) EXCEPT ![1] = "g"]}

\* --------------------------------------------------------------------- auth
UserOut(u) == [id |-> str_oid(u._id), name |-> u.name, email |-> u.email]

\* a duplicate check that filters on the wrong field
register_existing_by_name(payload) == find_by_email(user, payload.name)

\* register, line 114: existing = users.find_one({"email": payload.email})
register_existing(payload) == find_by_email(user, payload.email)

\* register, lines 117-121
register_user_doc(payload, oid) ==
    [_id |-> oid, name |-> payload.name, email |-> payload.email,
     password_hash |-> hash_password(payload.password), api_token |-> None]

register_rejected == HTTPException(400, "Email already registered")

register_accepted(payload, oid) ==
    Ok([id |-> str_oid(oid), name |-> payload.name, email |-> payload.email])

\* a check that forgets the password
login_denied_unknown_only(found, payload) == found = <<>>

\* login, line 129
login_denied(found, payload) ==
    \/ found = <<>>
    \/ found[1].password_hash # hash_password(payload.password)

\* a token that changes from one login to the next
login_token_rotating(u) ==
    IF u.api_token = sha256_hexdigest(str_oid(u._id))
    THEN sha256_hexdigest(<<"r">> \o str_oid(u._id))
    ELSE sha256_hexdigest(str_oid(u._id))

\* login, line 131
login_token(u) == sha256_hexdigest(str_oid(u._id))

login_response(payload) ==
    LET found == find_by_email(user, payload.email) IN
    IF login_denied(found, payload)
    THEN HTTPException(401, "Invalid credentials")
    ELSE Ok([token |-> login_token(found[1]), user |-> UserOut(found[1])])

\* an update that runs before the credentials are checked
login_users_unchecked(payload) ==
    LET found == find_by_email(user, payload.email) IN
    IF found = <<>>
    THEN user
    ELSE update_one_token(user, found[1]._id, login_token(found[1]))

login_users(payload) ==
    LET found == find_by_email(user, payload.email) IN
    IF login_denied(found, payload)
    THEN user
    ELSE update_one_token(user, found[1]._id, login_token(found[1]))

\* "not x_token": the header is absent or empty
falsy(x_token) == x_token = None \/ x_token = <<>>

\* a guard that tests for the empty header only
me_missing_empty_only(x_token) == x_token = <<>>

me_missing(x_token) == falsy(x_token)

\* me, against the user collection given
me_response(users, x_token) ==
    IF me_missing(x_token)
    THEN HTTPException(401, "Missing token")
    ELSE LET found == find_by_token(users, x_token) IN
         IF found = <<>>
         THEN HTTPException(401, "Invalid token")
         ELSE Ok(UserOut(found[1]))

\* ------------------------------------------------------ courses and products
\* a constraint written gt=0 instead of ge=0
Course_valid_gt(c) == c.price > 0

\* price: float = Field(..., ge=0); the framework answers 422 before the handler
Course_valid(c) == c.price >= 0

Product_valid(p) == p.price >= 0

RequestValidationError == [status |-> 422, detail |-> "ValidationError", body |-> None]

\* database.create_document(collection_name, data): inserts, returns the id
create_document(coll, data, oid) == insert_one(coll, [_id |-> oid, fields |-> data])

\* database.get_documents(collection_name, {}, limit): up to limit documents
get_documents(coll, limit) == SubSeq(coll, 1, IF limit < Len(coll) THEN limit ELSE Len(coll))

\* a gate that only asks for some token
create_course_unauthorized_missing_only(x_token) == falsy(x_token)

\* create_course, line 154
create_course_unauthorized(x_token) ==
    falsy(x_token) \/ find_by_token(user, x_token) = <<>>

\* create_product, line 176
create_product_unauthorized(x_token) ==
    falsy(x_token) \/ find_by_token(user, x_token) = <<>>

create_course_docs(body, x_token, oid) ==
    IF ~Course_valid(body) \/ create_course_unauthorized(x_token)
    THEN course
    ELSE create_document(course, body, oid)

create_course_response(body, x_token, oid) ==
    IF ~Course_valid(body) THEN RequestValidationError
    ELSE IF create_course_unauthorized(x_token) THEN HTTPException(401, "Unauthorized")
    ELSE Ok(serialize(find_by_id(create_course_docs(body, x_token, oid), oid)[1]))

create_product_docs(body, x_token, oid) ==
    IF ~Product_valid(body) \/ create_product_unauthorized(x_token)
    THEN product
    ELSE create_document(product, body, oid)

create_product_response(body, x_token, oid) ==
    IF ~Product_valid(body) THEN RequestValidationError
    ELSE IF create_product_unauthorized(x_token) THEN HTTPException(401, "Unauthorized")
    ELSE Ok(serialize(find_by_id(create_product_docs(body, x_token, oid), oid)[1]))

get_course_response(course_id) ==
    LET r == to_object_id(course_id) IN
    IF ~r.ok THEN HTTPException(400, "Invalid id")
    ELSE LET doc == find_by_id(course, r.oid) IN
         IF doc = <<>> THEN HTTPException(404, "Course not found")
         ELSE Ok(serialize(doc[1]))

get_product_response(product_id) ==
    LET r == to_object_id(product_id) IN
    IF ~r.ok THEN HTTPException(400, "Invalid id")
    ELSE LET doc == find_by_id(product, r.oid) IN
         IF doc = <<>> THEN HTTPException(404, "Product not found")
         ELSE Ok(serialize(doc[1]))

list_courses_response(limit) ==
    LET docs == get_documents(course, limit) IN
    Ok([i \in 1..Len(docs) |-> serialize(docs[i])])

list_products_response(limit) ==
    LET docs == get_documents(product, limit) IN
    Ok([i \in 1..Len(docs) |-> serialize(docs[i])])

send_contact_response(oid) == Ok([status |-> "received", id |-> str_oid(oid)])

\* ------------------------------------------------------------------ actions
\* the request served last: its handler, and the status and detail it answered
Served(op, res) == [op |-> op, status |-> res.status, detail |-> res.detail]

\* the store can still be handed a document
Room == nextOid < FirstOid + MaxDocs

\* a worker that serves no register request
Idle == <<>>

Init ==
    /\ user = <<>>
    /\ course = <<>>
    /\ product = <<>>
    /\ contactmessage = <<>>
    /\ nextOid = FirstOid
    /\ reg = [w \in 1..NumWorkers |-> Idle]
    /\ last = Served("start", Ok(None))
    /\ issued = {}

\* POST /auth/register handled without interruption
register_req(payload) ==
    LET existing == register_existing(payload) IN
    /\ existing # <<>> \/ (Len(user) < MaxUsers /\ Room)
    /\ IF existing # <<>>
       THEN /\ user' = user
            /\ nextOid' = nextOid
            /\ last' = Served("register", register_rejected)
       ELSE /\ user' = insert_one(user, register_user_doc(payload, new_oid(nextOid)))
            /\ nextOid' = nextOid + 1
            /\ last' = Served("register", register_accepted(payload, new_oid(nextOid)))
    /\ UNCHANGED <<course, product, contactmessage, reg, issued>>

register == \E payload \in RegisterRequest : register_req(payload)

\* POST /auth/register, first store call: find_one and the duplicate check
register_find(w) ==
    \E payload \in RegisterRequest :
      LET existing == register_existing(payload) IN
      /\ reg[w] = Idle
      /\ IF existing # <<>>
         THEN /\ reg' = reg
              /\ last' = Served("register", register_rejected)
         ELSE /\ reg' = [reg EXCEPT ![w] = <<payload>>]
              /\ last' = Served("register_find", Ok(None))
      /\ UNCHANGED <<user, course, product, contactmessage, nextOid, issued>>

\* a second step that looks the email up again before it inserts
register_insert_rechecked(w) ==
    LET existing == register_existing(reg[w][1]) IN
    /\ reg[w] # Idle
    /\ existing # <<>> \/ (Len(user) < MaxUsers /\ Room)
    /\ IF existing # <<>>
       THEN /\ user' = user
            /\ nextOid' = nextOid
            /\ last' = Served("register", register_rejected)
       ELSE /\ user' = insert_one(user, register_user_doc(reg[w][1], new_oid(nextOid)))
            /\ nextOid' = nextOid + 1
            /\ last' = Served("register", register_accepted(reg[w][1], new_oid(nextOid)))
    /\ reg' = [reg EXCEPT ![w] = Idle]
    /\ UNCHANGED <<course, product, contactmessage, issued>>

\* POST /auth/register, second store call: insert_one and the response
register_insert(w) ==
    /\ reg[w] # Idle
    /\ Len(user) < MaxUsers /\ Room
    /\ user' = insert_one(user, register_user_doc(reg[w][1], new_oid(nextOid)))
    /\ nextOid' = nextOid + 1
    /\ reg' = [reg EXCEPT ![w] = Idle]
    /\ last' = Served("register", register_accepted(reg[w][1], new_oid(nextOid)))
    /\ UNCHANGED <<course, product, contactmessage, issued>>

\* POST /auth/login; issued remembers every token a login has returned
login_req(payload) ==
    LET res == login_response(payload) IN
    /\ user' = login_users(payload)
    /\ last' = Served("login", res)
    /\ issued' = IF res.status = 200
                 THEN issued \cup {<<res.body.token, res.body.user>>}
                 ELSE issued
    /\ UNCHANGED <<course, product, contactmessage, nextOid, reg>>

login == \E payload \in LoginRequest : login_req(payload)

\* GET /me
me_req(x_token) ==
    /\ last' = Served("me", me_response(user, x_token))
    /\ UNCHANGED <<user, course, product, contactmessage, nextOid, reg, issued>>

me == \E x_token \in TokenInputs : me_req(x_token)

\* GET /courses
list_courses_req(limit) ==
    /\ last' = Served("list_courses", list_courses_response(limit))
    /\ UNCHANGED <<user, course, product, contactmessage, nextOid, reg, issued>>

list_courses == \E limit \in Limits : list_courses_req(limit)

\* POST /courses
create_course_req(body, x_token) ==
    LET oid == new_oid(nextOid)
        docs == create_course_docs(body, x_token, oid) IN
    /\ docs = course \/ (Len(course) < MaxCourses /\ Room)
    /\ course' = docs
    /\ nextOid' = IF docs = course THEN nextOid ELSE nextOid + 1
    /\ last' = Served("create_course", create_course_response(body, x_token, oid))
    /\ UNCHANGED <<user, product, contactmessage, reg, issued>>

create_course == \E body \in CourseBodies, x_token \in TokenInputs : create_course_req(body, x_token)

\* GET /courses/{course_id}
get_course_req(course_id) ==
    /\ last' = Served("get_course", get_course_response(course_id))
    /\ UNCHANGED <<user, course, product, contactmessage, nextOid, reg, issued>>

get_course == \E course_id \in IdInputs : get_course_req(course_id)

\* GET /products
list_products_req(limit) ==
    /\ last' = Served("list_products", list_products_response(limit))
    /\ UNCHANGED <<user, course, product, contactmessage, nextOid, reg, issued>>

list_products == \E limit \in Limits : list_products_req(limit)

\* POST /products
create_product_req(body, x_token) ==
    LET oid == new_oid(nextOid)
        docs == create_product_docs(body, x_token, oid) IN
    /\ docs = product \/ (Len(product) < MaxProducts /\ Room)
    /\ product' = docs
    /\ nextOid' = IF docs = product THEN nextOid ELSE nextOid + 1
    /\ last' = Served("create_product", create_product_response(body, x_token, oid))
    /\ UNCHANGED <<user, course, contactmessage, reg, issued>>

create_product == \E body \in ProductBodies, x_token \in TokenInputs : create_product_req(body, x_token)

\* GET /products/{product_id}
get_product_req(product_id) ==
    /\ last' = Served("get_product", get_product_response(product_id))
    /\ UNCHANGED <<user, course, product, contactmessage, nextOid, reg, issued>>

get_product == \E product_id \in IdInputs : get_product_req(product_id)

\* POST /contact
send_contact_req(msg) ==
    /\ Len(contactmessage) < MaxContacts /\ Room
    /\ contactmessage' = create_document(contactmessage, msg, new_oid(nextOid))
    /\ nextOid' = nextOid + 1
    /\ last' = Served("send_contact", send_contact_response(new_oid(nextOid)))
    /\ UNCHANGED <<user, course, product, reg, issued>>

send_contact == \E msg \in ContactMessage : send_contact_req(msg)

\* requests served one at a time
Next ==
    \/ register
    \/ login
    \/ me
    \/ list_courses
    \/ create_course
    \/ get_course
    \/ list_products
    \/ create_product
    \/ get_product
    \/ send_contact

Spec == Init /\ [][Next]_vars

\* the auth requests in flight together: the two store calls of register
\* interleave with each other and with login and me
NextConc ==
    \/ \E w \in 1..NumWorkers : register_find(w)
    \/ \E w \in 1..NumWorkers : register_insert(w)
    \/ login
    \/ me

SpecConc == Init /\ [][NextConc]_vars

\* ------------------------------------------------------------- properties
CountEmail(coll, email) == Cardinality({i \in 1..Len(coll) : coll[i].email = email})

HoldsToken(x_token) == \E i \in 1..Len(user) : user[i].api_token = x_token

Presented(x_token) == x_token # None /\ x_token # <<>>

Store == <<user, course, product, contactmessage>>

\* C1: a second successful login of a user returns a token that differs from
\* every token an earlier login returned to that user; the earlier token no
\* longer authenticates and the new one does
C1_SecondLoginInvalidates ==
    [][\A payload \in LoginRequest :
         LET res == login_response(payload) IN
         (last'.op = "login" /\ login_req(payload) /\ res.status = 200) =>
           /\ \A t \in issued :
                t[2].id = res.body.user.id =>
                  /\ t[1] # res.body.token
                  /\ me_response(user', t[1]).status = 401
           /\ me_response(user', res.body.token).status = 200]_vars

\* C2: every token a successful login returned authenticates as exactly the
\* user it was returned for, and no other header value (absent and empty
\* included) authenticates
C2_TokenIdentifiesItsUser ==
    /\ \A t \in issued :
         LET r == me_response(user, t[1]) IN
         /\ r.status = 200
         /\ r.body = t[2]
         /\ \E i \in 1..Len(user) :
              /\ str_oid(user[i]._id) = r.body.id
              /\ user[i].name = r.body.name
              /\ user[i].email = r.body.email
    /\ \A x \in AllTokens :
         (\A t \in issued : t[1] # x) => me_response(user, x).status = 401

C2_Witness ==
    /\ Cardinality(issued) = 1
    /\ \E i \in 1..Len(user) : user[i].api_token = None
    /\ last.op = "me" /\ last.status = 200

\* C3: with register served one at a time, a register with an email no User
\* has succeeds and appends one User with that email, the digest of the
\* password and no token; a register with an email some User has answers 400
\* Email already registered and adds nothing; either way exactly one User
\* has the email afterwards
C3_RegisterOncePerEmail ==
    [][\A payload \in RegisterRequest :
         (last'.op = "register" /\ register_req(payload)) =>
           /\ CountEmail(user', payload.email) = 1
           /\ IF CountEmail(user, payload.email) = 0
              THEN /\ last'.status = 200
                   /\ Len(user') = Len(user) + 1
                   /\ SubSeq(user', 1, Len(user)) = user
                   /\ user'[Len(user')].email = payload.email
                   /\ user'[Len(user')].password_hash = hash_password(payload.password)
                   /\ user'[Len(user')].api_token = None
              ELSE /\ last'.status = 400
                   /\ last'.detail = "Email already registered"
                   /\ user' = user]_vars

C3_Witness ==
    /\ last.op = "register" /\ last.status = 400
    /\ Len(user) = 1

\* C4: login succeeds exactly when some User has the email and the digest of
\* the password is that User's password_hash; every other login answers the
\* same 401 Invalid credentials, whether or not the email is known
C4_LoginIffSomeUserMatches ==
    \A payload \in LoginRequest :
      LET r == login_response(payload) IN
      /\ r.status = 200 <=>
           \E i \in 1..Len(user) :
             /\ user[i].email = payload.email
             /\ user[i].password_hash = hash_password(payload.password)
      /\ r.status # 200 => r.status = 401 /\ r.detail = "Invalid credentials"

\* C4, what login does when Users share an email: it succeeds exactly when
\* the first User stored with the email (the one the lookup finds) has the
\* digest of the password as its password_hash
C4_LoginIffFirstUserMatches ==
    \A payload \in LoginRequest :
      LET r == login_response(payload) IN
      /\ r.status = 200 <=>
           \E i \in 1..Len(user) :
             /\ user[i].email = payload.email
             /\ \A j \in 1..(i - 1) : user[j].email # payload.email
             /\ user[i].password_hash = hash_password(payload.password)
      /\ r.status # 200 => r.status = 401 /\ r.detail = "Invalid credentials"

C4_SharedEmailLoginRefused ==
    /\ last.op = "login" /\ last.status = 401
    /\ \E i, j \in 1..Len(user) :
         /\ i < j
         /\ user[i].email = user[j].email
         /\ user[i].password_hash # user[j].password_hash
         /\ user[i].api_token # None

\* C5: the insert of a register request does not look at the collection
\* again: every request that passed the duplicate check inserts its User and
\* answers 200, whatever was inserted in between (so two requests with one
\* fresh email can both insert)
C5_InsertAfterCheckIsUnconditional ==
    [][\A w \in 1..NumWorkers :
         register_insert(w) =>
           /\ Len(user') = Len(user) + 1
           /\ user'[Len(user')].email = reg[w][1].email
           /\ last'.status = 200]_vars

C5_TwoUsersShareEmail ==
    \E i, j \in 1..Len(user) : i # j /\ user[i].email = user[j].email

\* C6 as stated: a create without a token, or with a token no User holds,
\* answers 401 Unauthorized and inserts nothing
C6_UnauthorizedAlways401 ==
    [][/\ \A body \in CourseBodies, x \in TokenInputs :
            (last'.op = "create_course" /\ create_course_req(body, x)
               /\ ~(Presented(x) /\ HoldsToken(x))) =>
              last'.status = 401 /\ Store' = Store
       /\ \A body \in ProductBodies, x \in TokenInputs :
            (last'.op = "create_product" /\ create_product_req(body, x)
               /\ ~(Presented(x) /\ HoldsToken(x))) =>
              last'.status = 401 /\ Store' = Store]_vars

\* C6 amended: a create whose body passes validation answers 401 Unauthorized
\* and inserts nothing when the token is absent, empty or held by no User;
\* no create inserts without a token some User holds, and a create answers
\* 200 only with such a token
C6_UnauthorizedCreate ==
    [][/\ \A body \in CourseBodies, x \in TokenInputs :
            (last'.op = "create_course" /\ create_course_req(body, x)) =>
              /\ ~(Presented(x) /\ HoldsToken(x)) => Store' = Store /\ last'.status # 200
              /\ (body.price >= 0 /\ ~(Presented(x) /\ HoldsToken(x))) =>
                   last'.status = 401 /\ last'.detail = "Unauthorized"
       /\ \A body \in ProductBodies, x \in TokenInputs :
            (last'.op = "create_product" /\ create_product_req(body, x)) =>
              /\ ~(Presented(x) /\ HoldsToken(x)) => Store' = Store /\ last'.status # 200
              /\ (body.price >= 0 /\ ~(Presented(x) /\ HoldsToken(x))) =>
                   last'.status = 401 /\ last'.detail = "Unauthorized"]_vars

C6_Witness ==
    /\ last.op = "create_course" /\ last.status = 401
    /\ \E i \in 1..Len(user) : user[i].api_token # None

\* C7: a create with a negative price answers the validation error and
\* inserts nothing, with or without a token some User holds; with price 0 and
\* such a token it answers 200 and appends the document; no stored course or
\* product has a negative price
C7_NegativePriceRejected ==
    [][/\ \A body \in CourseBodies, x \in TokenInputs :
            (last'.op = "create_course" /\ create_course_req(body, x)) =>
              /\ body.price < 0 => last'.status = 422 /\ Store' = Store
              /\ (body.price = 0 /\ Presented(x) /\ HoldsToken(x)) =>
                   /\ last'.status = 200
                   /\ Len(course') = Len(course) + 1
                   /\ course'[Len(course')].fields = body
       /\ \A body \in ProductBodies, x \in TokenInputs :
            (last'.op = "create_product" /\ create_product_req(body, x)) =>
              /\ body.price < 0 => last'.status = 422 /\ Store' = Store
              /\ (body.price = 0 /\ Presented(x) /\ HoldsToken(x)) =>
                   /\ last'.status = 200
                   /\ Len(product') = Len(product) + 1
                   /\ product'[Len(product')].fields = body
       /\ \A i \in 1..Len(course') : course'[i].fields.price >= 0
       /\ \A i \in 1..Len(product') : product'[i].fields.price >= 0]_vars

C7_Witness ==
    /\ last.op = "create_course" /\ last.status = 422
    /\ \E i \in 1..Len(user) : user[i].api_token # None
    /\ course = <<>>

\* the characters of a well-formed identifier
HexAlphabet == {"0", "1", "2", "3", "4", "5", "6", "7", "8", "9",
                "a", "b", "c", "d", "e", "f", "A", "B", "C", "D", "E", "F"}

WellFormed(s) == Len(s) = 2 * OidBytes /\ \A i \in 1..Len(s) : s[i] \in HexAlphabet

LowerStr(s) == [i \in 1..Len(s) |-> Lower(s[i])]

StoredUnder(coll, s) == {i \in 1..Len(coll) : str_oid(coll[i]._id) = LowerStr(s)}

GetOutcome(r, coll, s, missing) ==
    /\ ~WellFormed(s) => r.status = 400 /\ r.detail = "Invalid id"
    /\ (WellFormed(s) /\ StoredUnder(coll, s) = {}) => r.status = 404 /\ r.detail = missing
    /\ (WellFormed(s) /\ StoredUnder(coll, s) # {}) =>
         /\ r.status = 200
         /\ \E i \in StoredUnder(coll, s) :
              r.body.id = str_oid(coll[i]._id) /\ r.body.fields = coll[i].fields

\* C8: for every identifier text, get answers 400 Invalid id when the text is
\* no well-formed identifier, 404 when it is well-formed and no document has
\* it, and the document when one has it
C8_GetOutcomes ==
    \A s \in AllIds :
      /\ GetOutcome(get_course_response(s), course, s, "Course not found")
      /\ GetOutcome(get_product_response(s), product, s, "Product not found")

C8_Witness ==
    /\ last.op = "get_course" /\ last.status = 200

\* C9: a stored api_token is never removed or changed: after every step each
\* User that had a token has the same token, and the token still
\* authenticates as that User
C9_TokenNeverRevoked ==
    [][\A i \in 1..Len(user) :
         user[i].api_token # None =>
           /\ Len(user') >= i
           /\ user'[i]._id = user[i]._id
           /\ user'[i].api_token = user[i].api_token
           /\ me_response(user', user[i].api_token).status = 200
           /\ me_response(user', user[i].api_token).body.id = str_oid(user[i]._id)]_vars

C9_Witness ==
    /\ last.op = "login" /\ last.status = 200
    /\ Cardinality(issued) = 1
    /\ Len(user) = 2
    /\ course # <<>>

Reads == {"me", "list_courses", "list_products", "get_course", "get_product"}

\* C10: a step that answers an error, and every me, list and get, leaves the
\* four collections as they were; register and login change the user
\* collection only, and each create or contact submit its own collection only
C10_FrameOfRequests ==
    [][/\ last'.status # 200 => Store' = Store
       /\ last'.op \in Reads => Store' = Store
       /\ last'.op \in {"register", "login"} => UNCHANGED <<course, product, contactmessage>>
       /\ last'.op = "login" =>
            /\ Len(user') = Len(user)
            /\ \A i \in 1..Len(user) : user'[i] = [user[i] EXCEPT !.api_token = user'[i].api_token]
       /\ last'.op = "create_course" => UNCHANGED <<user, product, contactmessage>>
       /\ last'.op = "create_product" => UNCHANGED <<user, course, contactmessage>>
       /\ last'.op = "send_contact" => UNCHANGED <<user, course, product>>]_vars

C10_Witness ==
    /\ last.op = "get_product" /\ last.status = 404
    /\ product # <<>>
    /\ \E i \in 1..Len(user) : user[i].api_token # None

====
